---- MODULE Spec2Model ----
(***************************************************************************)
(* Model of voltade/blog-crawler: the scheduled worker (BlogCrawlerWorker, *)
(* sitemap variant of BlogScraper), the legacy command-line workflow       *)
(* (main, HTML-listing variant of BlogScraper with the KV dedup markers),  *)
(* and the listing filters as pure functions.                              *)
(*                                                                         *)
(* Timestamps are natural numbers.  A lastmod / datetime text is           *)
(* represented by the time value `new Date(text)` gives it; NaN is the     *)
(* value of an Invalid Date (a text Date cannot parse).                    *)
(***************************************************************************)
EXTENDS Integers, Sequences, FiniteSets, TLC

VARIABLES
    program,            \* which program this behaviour executes
    \* ---- worker (BlogCrawlerWorker.run) ----
    sitemap,            \* the <url> entries parseXMLSitemap yields, in order
    kvWatermark,        \* persisted watermark: {} (no prior state) or {t}
    pc,                 \* position of run(): "idle", "loop", "update"
    ranOnce,            \* run() has been started at least once
    lastProcessedDate,  \* run(): const lastProcessedDate
    recentPosts,        \* run(): const recentPosts
    latestDate,         \* run(): let latestDate
    processedCount,     \* run(): let processedCount
    attempted,          \* posts passed to processPost in the current/last run
    attemptedBefore,    \* urls passed to processPost in earlier runs
    lastPost,           \* what the last processPost call did
    failedEarlier,      \* some processPost of this run failed
    runThrew,           \* the current/last run ended in run()'s catch block
    updateArg,          \* argument of updateLastProcessedDate in the last run, or {}
    apiKey,             \* env.OPENAI_API_KEY is set
    faulty,             \* the KV store of the watermark may fail
    runOutcome,         \* how the current/last run stands: "none", "running",
                        \* "returned", "errorLine" (catch block), "threw"
    kvReads,            \* calls of getLastProcessedDate in the current/last run
    kvWrites,           \* calls of updateLastProcessedDate in the current/last run
    \* ---- legacy workflow (main, BlogScraper with KV markers) ----
    kvKind,             \* "mock" (MockKV), "cloudflare" (a KV binding) or "none"
    lkv,                \* keys stored in the KV namespace
    lpc,                \* position of main(): "start", "category", "urls", "done", "fatal"
    catIdx,             \* number of categories whose listing was requested
    blogUrls,           \* main(): const blogUrls of the current category
    urlIdx,             \* number of blogUrls of this category already processed
    returnedDoc,        \* urls scrapePepperCloudBlog has returned a document for
    markedOk,           \* urls whose marker write (kv.put) has succeeded
    lastScrape,         \* what the last scrapePepperCloudBlog call did (marked: it
                        \* wrote the marker; kvSame: it left the store as it was;
                        \* put: how its kv.put call went, "none" when not made)
    lastStage,          \* how the last iteration over a blog url ended
    lfailed,            \* an earlier url of this category failed or was skipped
    \* ---- the listing filters applied to drawn inputs ----
    xml,                \* the <url> elements of a sitemap document, in order
    cards,              \* the <article> cards of an HTML listing page, in order
    cutoff1, cutoff2,   \* two cutoffs, cutoff1 <= cutoff2
    fn,                 \* the filter that has been applied, or "none"
    res1, res2,         \* its results for cutoff1 and cutoff2
    \* ---- scraping one page ----
    webPage,            \* the page behind the url
    spc,                \* "start", "scraped", "prepared"
    scrapedBlog,        \* what the scraper returned: Null or <<document>>
    wordCount,          \* the word count the scraper computed
    postData,           \* processPost: const postData, or Null
    aiContent,          \* the AI input made of the document
    \* ---- the AI category and generation of one document ----
    categoryReply,      \* what the categorizer call replies
    generationReply,    \* what the generation call replies
    gpc,                \* "start", "categorized", "returned"
    aiCategory,         \* generateBlogWithAI: const aiCategory
    generatedResult     \* what generateBlogWithAI returned: Null or <<result>>

workerVars == <<sitemap, kvWatermark, pc, ranOnce, lastProcessedDate, recentPosts,
                latestDate, processedCount, attempted, attemptedBefore,
                lastPost, failedEarlier, runThrew, updateArg,
                apiKey, faulty, runOutcome, kvReads, kvWrites>>

legacyVars == <<kvKind, lkv, lpc, catIdx, blogUrls, urlIdx, returnedDoc, markedOk,
                lastScrape, lastStage, lfailed>>

listingVars == <<xml, cards, cutoff1, cutoff2, fn, res1, res2>>

scrapeVars == <<webPage, spc, scrapedBlog, wordCount, postData, aiContent>>

generateVars == <<categoryReply, generationReply, gpc, aiCategory, generatedResult>>

vars == <<program, workerVars, legacyVars, listingVars, scrapeVars, generateVars, generateVars>>

----------------------------------------------------------------------------
\* Bounds of the model
MaxDate == 2
MaxPosts == 6

\* run(): "process max 5 posts per run"
MaxPostsPerRun == 5

NaN == 0 - 1
Times == 0 .. MaxDate
Lastmods == (1 .. MaxDate) \cup {NaN}

Max(a, b) == IF a >= b THEN a ELSE b
Min(a, b) == IF a <= b THEN a ELSE b
Range(s) == {s[i] : i \in DOMAIN s}

----------------------------------------------------------------------------
\* JavaScript's `a > b` on two Date objects: false when either is an Invalid Date
DateFlipped(a, b) == a # NaN /\ b # NaN /\ a < b
DateGT(a, b) == a # NaN /\ b # NaN /\ a > b

\* JavaScript's `a < b` on two Date objects
DateLT(a, b) == a # NaN /\ b # NaN /\ a < b

\* BlogScraper.getRecentPosts: allPosts.filter(post => new Date(post.lastmod) > cutoffDate)
getRecentPostsNotStrict(allPosts, cutoffDate) ==
    SelectSeq(allPosts, LAMBDA post : ~DateLT(post.lastmod, cutoffDate) /\ post.lastmod # NaN)
getRecentPosts(allPosts, cutoffDate) ==
    SelectSeq(allPosts, LAMBDA post : DateGT(post.lastmod, cutoffDate))

\* BlogScraper.getAllBlogPostsFromSitemap: the parsed sitemap, [] when the fetch throws
getAllBlogPostsFromSitemap(fetchOk) == IF fetchOk THEN sitemap ELSE <<>>

\* FileUtils.getLastProcessedDate: the persisted watermark, or the cold-start
\* fallback (now minus the fallback window) when nothing is persisted
getLastProcessedDate(coldStart) ==
    IF kvWatermark = {} THEN coldStart ELSE CHOOSE t \in kvWatermark : TRUE

\* FileUtils.updateLastProcessedDate: persists unconditionally
updateLastProcessedDate(date) == {date}

\* run(): if (postDate > latestDate) latestDate = postDate
NextLatestLastWins(postDate, latest) == postDate
NextLatest(postDate, latest) == IF DateGT(postDate, latest) THEN postDate ELSE latest

\* What the collaborators of one processPost call do
PostOutcomes == {"scrapeNull", "genNull", "dispatchOk", "dispatchFail", "dispatchThrow"}

\* BlogCrawlerWorker.processPost: the steps taken, and whether an exception
\* escapes it (never: the catch block turns it into a result line)
\* scraped: scrapeBlog returned a document; generated: generateBlogWithAI
\* returned a result
processPostRethrows(post, io) ==
    [url    |-> post.url,
     scraped |-> io # "scrapeNull",
     generated |-> io \notin {"scrapeNull", "genNull"},
     steps  |-> IF io = "scrapeNull" THEN <<"scrape">>
                ELSE IF io = "genNull" THEN <<"scrape", "generate">>
                ELSE <<"scrape", "generate", "dispatch">>,
     ok     |-> io = "dispatchOk",
     threw  |-> io = "dispatchThrow"]
processPostDispatchesAnyway(post, io) ==
    [url    |-> post.url,
     scraped |-> io # "scrapeNull",
     generated |-> io \notin {"scrapeNull", "genNull"},
     steps  |-> IF io = "scrapeNull" THEN <<"scrape">>
                ELSE <<"scrape", "generate", "dispatch">>,
     ok     |-> io = "dispatchOk",
     threw  |-> FALSE]
processPost(post, io) ==
    [url    |-> post.url,
     scraped |-> io # "scrapeNull",
     generated |-> io \notin {"scrapeNull", "genNull"},
     steps  |-> IF io = "scrapeNull" THEN <<"scrape">>
                ELSE IF io = "genNull" THEN <<"scrape", "generate">>
                ELSE <<"scrape", "generate", "dispatch">>,
     ok     |-> io = "dispatchOk",
     threw  |-> FALSE]

NoPost == [url |-> 0, scraped |-> FALSE, generated |-> FALSE, steps |-> <<>>,
           ok |-> FALSE, threw |-> FALSE]

\* Without an API key the OpenAI calls are refused and generateBlogWithAI
\* returns null
PostOutcomesWith(key) == IF key THEN PostOutcomes ELSE {"scrapeNull", "genNull"}

\* run(), lines 315-318: the catch block turns the exception into a result line
onRunErrorRethrow == "threw"
onRunError == "errorLine"

\* run(), lines 290 and 302-305: the loop ends after the last post or at the cap
loopEndsAtLast(count, n) == count = n
loopEnds(count, n) == count >= MaxPostsPerRun \/ count = n

MkSitemap(ds) == [i \in DOMAIN ds |-> [url |-> i, lastmod |-> ds[i]]]
Sitemaps == {MkSitemap(ds) : ds \in UNION {[1 .. n -> Lastmods] : n \in 0 .. MaxPosts}}

\* Sitemaps of the runs whose environment may fail
MaxEnvPosts == 3
EnvSitemaps == {MkSitemap(ds) : ds \in UNION {[1 .. n -> Lastmods] : n \in 0 .. MaxEnvPosts}}

----------------------------------------------------------------------------
\* The worker before its first run: nothing persisted yet (cold start)
WorkerAtRest ==
    /\ kvWatermark = {}
    /\ pc = "idle"
    /\ ranOnce = FALSE
    /\ lastProcessedDate = 0
    /\ recentPosts = <<>>
    /\ latestDate = 0
    /\ processedCount = 0
    /\ attempted = <<>>
    /\ attemptedBefore = {}
    /\ lastPost = NoPost
    /\ failedEarlier = FALSE
    /\ runThrew = FALSE
    /\ updateArg = {}
    /\ apiKey = TRUE
    /\ faulty = FALSE
    /\ runOutcome = "none"
    /\ kvReads = 0
    /\ kvWrites = 0

\* run(), lines 268-287: load the watermark, fetch and filter the listing
RunStart ==
    /\ program = "worker"
    /\ pc = "idle"
    /\ \E loadOk \in BOOLEAN :
         /\ ~faulty => loadOk
         /\ IF loadOk
            THEN \E coldStart \in Times, fetchOk \in BOOLEAN :
                   LET last   == getLastProcessedDate(coldStart)
                       recent == getRecentPosts(getAllBlogPostsFromSitemap(fetchOk), last)
                   IN /\ lastProcessedDate' = last
                      /\ recentPosts' = recent
                      /\ latestDate' = last
                      /\ pc' = IF Len(recent) = 0 THEN "idle" ELSE "loop"
                      /\ runOutcome' = IF Len(recent) = 0 THEN "returned" ELSE "running"
            ELSE \* getLastProcessedDate throws: the catch block of run()
                 /\ recentPosts' = <<>>
                 /\ pc' = "idle"
                 /\ runOutcome' = onRunError
                 /\ UNCHANGED <<lastProcessedDate, latestDate>>
    /\ kvReads' = 1
    /\ kvWrites' = 0
    /\ ranOnce' = TRUE
    /\ processedCount' = 0
    /\ attemptedBefore' = attemptedBefore \cup {attempted[i].url : i \in DOMAIN attempted}
    /\ attempted' = <<>>
    /\ lastPost' = NoPost
    /\ failedEarlier' = FALSE
    /\ runThrew' = FALSE
    /\ updateArg' = {}
    /\ UNCHANGED <<program, legacyVars, listingVars, scrapeVars, generateVars, sitemap, kvWatermark,
                   apiKey, faulty>>

\* run(), lines 290-306: one iteration of the loop over recentPosts
ProcessNext ==
    /\ program = "worker"
    /\ pc = "loop"
    /\ \E io \in PostOutcomesWith(apiKey) :
         LET post == recentPosts[processedCount + 1]
             res  == processPost(post, io)
         IN /\ lastPost' = res
            /\ attempted' = Append(attempted, post)
            /\ IF res.threw
               THEN \* the exception reaches run()'s catch block
                    /\ runThrew' = TRUE
                    /\ pc' = "idle"
                    /\ runOutcome' = onRunError
                    /\ UNCHANGED <<processedCount, latestDate, failedEarlier>>
               ELSE /\ runThrew' = FALSE
                    /\ runOutcome' = runOutcome
                    /\ processedCount' = processedCount + 1
                    /\ latestDate' = NextLatest(post.lastmod, latestDate)
                    /\ failedEarlier' = (failedEarlier \/ ~res.ok)
                    /\ pc' = IF loopEnds(processedCount + 1, Len(recentPosts))
                             THEN "update" ELSE "loop"
    /\ UNCHANGED <<program, legacyVars, listingVars, scrapeVars, generateVars, sitemap, kvWatermark, ranOnce, lastProcessedDate,
                   recentPosts, attemptedBefore, updateArg, apiKey, faulty, kvReads, kvWrites>>

\* run(), lines 308-320: advance the watermark and return
RunFinish ==
    /\ program = "worker"
    /\ pc = "update"
    /\ IF DateGT(latestDate, lastProcessedDate)
       THEN \E putOk \in BOOLEAN :
              /\ ~faulty => putOk
              /\ updateArg' = {latestDate}
              /\ kvWrites' = kvWrites + 1
              /\ IF putOk
                 THEN /\ kvWatermark' = updateLastProcessedDate(latestDate)
                      /\ runOutcome' = "returned"
                 ELSE \* updateLastProcessedDate throws: the catch block of run()
                      /\ kvWatermark' = kvWatermark
                      /\ runOutcome' = onRunError
       ELSE /\ runOutcome' = "returned"
            /\ UNCHANGED <<kvWatermark, updateArg, kvWrites>>
    /\ pc' = "idle"
    /\ UNCHANGED <<program, legacyVars, listingVars, scrapeVars, generateVars, sitemap, ranOnce, lastProcessedDate, recentPosts,
                   latestDate, processedCount, attempted, attemptedBefore,
                   lastPost, failedEarlier, runThrew, apiKey, faulty, kvReads>>

NextWorker == RunStart \/ ProcessNext \/ RunFinish

----------------------------------------------------------------------------
\* The HTML listing (BlogScraper.getRecentBlogUrls) and the KV dedup markers

\* An attribute that is absent (or empty): attr() gives undefined, a falsy value
NoAttr == 0 - 2
NoHref == <<>>

\* getRecentBlogUrls(category, weeksBack = 2); main() passes 2 as well
DefaultWeeksBack == 2
DaysPerWeek == 7

\* cutoffDate.setDate(cutoffDate.getDate() - weeksBack * 7), in days
cutoffDate(now, weeksBack) == now - weeksBack * DaysPerWeek

\* the clock readings of the model: those whose cutoff falls in Times
Nows == {t + DefaultWeeksBack * DaysPerWeek : t \in Times}

\* getRecentBlogUrls, lines 253-262: `return false` ends the traversal at a
\* card that has a datetime attribute older than the cutoff
stopsAtOrEqual(article, cutoff) ==
    article.datetime # NoAttr /\ ~DateGT(article.datetime, cutoff) /\ article.datetime # NaN
stopsAtNewer(article, cutoff) ==
    article.datetime # NoAttr /\ DateGT(article.datetime, cutoff)
stopsAt(article, cutoff) ==
    article.datetime # NoAttr /\ DateLT(article.datetime, cutoff)

\* getRecentBlogUrls, lines 265-270: a card contributes its href when it has one
pushesAlways(article) == TRUE
pushes(article) == article.href # NoHref

\* getRecentBlogUrls, lines 249-271: $("article").each(...) from card i on
RECURSIVE eachArticle(_, _, _)
eachArticle(page, cutoff, i) ==
    IF i > Len(page) THEN <<>>
    ELSE IF stopsAt(page[i], cutoff) THEN <<>>
    ELSE (IF pushes(page[i]) THEN <<page[i].href>> ELSE <<>>)
             \o eachArticle(page, cutoff, i + 1)

\* BlogScraper.getRecentBlogUrls: [] when the fetch throws or is not ok
getRecentBlogUrls(page, now, weeksBack, fetchOk) ==
    IF fetchOk THEN eachArticle(page, cutoffDate(now, weeksBack), 1) ELSE <<>>

\* const fullUrl = `https://blog.peppercloud.com${blogUrl}`
UrlPrefix == <<"h", "t", "t", "p", "s", ":", "/", "/", "b", "l", "o", "g", ".",
               "p", "e", "p", "p", "e", "r", "c", "l", "o", "u", "d", ".", "c", "o", "m">>
fullUrlOf(blogUrl) == UrlPrefix \o blogUrl

\* The characters of [a-zA-Z0-9-_] that occur in the model's urls
KeyChars == {"a", "b", "c", "d", "e", "g", "h", "l", "m", "o", "p", "r", "s", "t",
             "u", "-", "_"}
KeyMaxLen == 512

\* BlogScraper.createUrlKey: url.replace(/[^a-zA-Z0-9-_]/g, "_").substring(0, 512)
createUrlKey(url) ==
    LET replaced == [i \in DOMAIN url |-> IF url[i] \in KeyChars THEN url[i] ELSE "_"]
    IN SubSeq(replaced, 1, Min(Len(replaced), KeyMaxLen))

\* const key = `scraped:${this.createUrlKey(url)}`
kvKey(url) == <<"scraped:">> \o createUrlKey(url)

\* BlogScraper.isUrlScraped: false without a namespace and when kv.get throws
isUrlScrapedInverted(url, kv, getOk) ==
    IF kvKind = "none" THEN FALSE
    ELSE IF ~getOk THEN FALSE
    ELSE kvKey(url) \notin kv
isUrlScraped(url, kv, getOk) ==
    IF kvKind = "none" THEN FALSE
    ELSE IF ~getOk THEN FALSE
    ELSE kvKey(url) \in kv

\* BlogScraper.markUrlAsScraped: the store after the call; an error of kv.put
\* is logged and swallowed
markUrlAsScrapedNever(url, kv, putOk) == kv
markUrlAsScraped(url, kv, putOk) ==
    IF kvKind = "none" THEN kv
    ELSE IF ~putOk THEN kv
    ELSE kv \cup {kvKey(url)}

\* What the fetch of a blog page gives
PageOutcomes == {"ok", "fetchError", "noTitle", "noContent"}

\* BlogScraper.scrapePepperCloudBlog: whether a document is returned, whether
\* the page was fetched, and the KV store after the call
scrapePepperCloudBlogMarksFailures(blogUrl, kv, getOk, page, putOk) ==
    LET fullUrl == fullUrlOf(blogUrl) IN
    IF isUrlScraped(fullUrl, kv, getOk)
    THEN [url |-> blogUrl, doc |-> FALSE, fetched |-> FALSE, kv |-> kv, marked |-> FALSE]
    ELSE IF page # "ok"
    THEN [url |-> blogUrl, doc |-> FALSE, fetched |-> TRUE,
          kv |-> markUrlAsScraped(fullUrl, kv, putOk),
          marked |-> (kvKind # "none" /\ putOk)]
    ELSE [url |-> blogUrl, doc |-> TRUE, fetched |-> TRUE,
          kv |-> markUrlAsScraped(fullUrl, kv, putOk),
          marked |-> (kvKind # "none" /\ putOk)]
scrapePepperCloudBlog(blogUrl, kv, getOk, page, putOk) ==
    LET fullUrl == fullUrlOf(blogUrl) IN
    IF isUrlScraped(fullUrl, kv, getOk)
    THEN [url |-> blogUrl, doc |-> FALSE, fetched |-> FALSE, kv |-> kv, marked |-> FALSE]
    ELSE IF page # "ok"
    THEN [url |-> blogUrl, doc |-> FALSE, fetched |-> TRUE, kv |-> kv, marked |-> FALSE]
    ELSE [url |-> blogUrl, doc |-> TRUE, fetched |-> TRUE,
          kv |-> markUrlAsScraped(fullUrl, kv, putOk),
          marked |-> (kvKind # "none" /\ putOk)]

\* main(): const categories
categories == <<"sales-and-marketing", "crm", "product-update", "grant", "product-support">>

\* The blog paths of the model; the first two differ in one character that
\* createUrlKey replaces
Urls == { <<"/", "a", "/", "b">>, <<"/", "a", "_", "b">>, <<"/", "c">> }

\* Bound: cards on a category page of the legacy workflow
MaxCategoryCards == 2

\* Category pages: cards with distinct links, undated or dated at day 0
CategoryPages ==
    {p \in UNION {[1 .. n -> [href : Urls, datetime : {NoAttr, 0}]] : n \in 0 .. MaxCategoryCards} :
        \A i, j \in DOMAIN p : i # j => p[i].href # p[j].href}

\* What a call getRecentBlogUrls(category, 2) of main() can return
RecentUrlLists ==
    {getRecentBlogUrls(page, now, DefaultWeeksBack, fetchOk) :
        page \in CategoryPages, now \in Nows, fetchOk \in BOOLEAN}

NoScrape == [url |-> <<>>, doc |-> FALSE, fetched |-> FALSE, hadDoc |-> FALSE,
             wasMarked |-> FALSE, getOk |-> FALSE,
             marked |-> FALSE, kvSame |-> TRUE, put |-> "none"]

LegacyAtRest ==
    /\ kvKind = "none"
    /\ lkv = {}
    /\ lpc = "start"
    /\ catIdx = 0
    /\ blogUrls = <<>>
    /\ urlIdx = 0
    /\ returnedDoc = {}
    /\ markedOk = {}
    /\ lastScrape = NoScrape
    /\ lastStage = "none"
    /\ lfailed = FALSE

\* main(), lines 21-40: the API key check and the construction of the services
MainStart ==
    /\ program = "legacy"
    /\ lpc \in {"start", "done", "fatal"}
    /\ \E hasKey \in BOOLEAN :
         IF hasKey
         THEN /\ lpc' = "category"
              /\ lkv' = IF kvKind = "mock" THEN {} ELSE lkv
              /\ returnedDoc' = IF kvKind = "mock" THEN {} ELSE returnedDoc
              /\ markedOk' = IF kvKind = "mock" THEN {} ELSE markedOk
         ELSE /\ lpc' = "fatal"
              /\ UNCHANGED <<lkv, returnedDoc, markedOk>>
    /\ catIdx' = 0
    /\ blogUrls' = <<>>
    /\ urlIdx' = 0
    /\ lastScrape' = NoScrape
    /\ lastStage' = "none"
    /\ lfailed' = FALSE
    /\ UNCHANGED <<program, workerVars, listingVars, scrapeVars, generateVars, kvKind>>

\* main(), lines 42-54: the next category and its recent blog urls
MainCategory ==
    /\ program = "legacy"
    /\ lpc = "category"
    /\ catIdx < Len(categories)
    /\ catIdx' = catIdx + 1
    /\ \E urls \in RecentUrlLists :
         /\ blogUrls' = urls
         /\ lpc' = IF Len(urls) = 0 THEN "category" ELSE "urls"
    /\ urlIdx' = 0
    /\ lfailed' = FALSE
    /\ lastStage' = "none"
    /\ UNCHANGED <<program, workerVars, listingVars, scrapeVars, generateVars, kvKind, lkv, returnedDoc,
                   markedOk, lastScrape>>

\* main(), lines 56-99: one iteration of the loop over blogUrls
MainProcessUrl ==
    /\ program = "legacy"
    /\ lpc = "urls"
    /\ \E getOk \in BOOLEAN, page \in PageOutcomes, putOk \in BOOLEAN,
          after \in {"saved", "generateThrew", "saveThrew"} :
         /\ kvKind = "mock" => getOk /\ putOk
         \* kv.put and the later stages are reached only with a scraped page
         /\ page # "ok" => putOk /\ after = "saved"
         /\ LET blogUrl == blogUrls[urlIdx + 1]
                r == scrapePepperCloudBlog(blogUrl, lkv, getOk, page, putOk)
            IN /\ lkv' = r.kv
               /\ lastScrape' = [url |-> blogUrl, doc |-> r.doc, fetched |-> r.fetched,
                                 hadDoc |-> blogUrl \in returnedDoc,
                                 wasMarked |-> blogUrl \in markedOk,
                                 getOk |-> getOk,
                                 marked |-> r.marked,
                                 kvSame |-> (r.kv = lkv),
                                 put |-> IF r.doc /\ kvKind # "none"
                                         THEN (IF putOk THEN "ok" ELSE "failed")
                                         ELSE "none"]
               /\ returnedDoc' = IF r.doc THEN returnedDoc \cup {blogUrl} ELSE returnedDoc
               /\ markedOk' = IF r.marked THEN markedOk \cup {blogUrl} ELSE markedOk
               /\ lastStage' = IF r.doc THEN after ELSE "skipped"
               /\ lfailed' = (lfailed \/ lastStage \notin {"none", "saved"})
    /\ urlIdx' = urlIdx + 1
    /\ lpc' = IF urlIdx + 1 = Len(blogUrls) THEN "category" ELSE "urls"
    /\ UNCHANGED <<program, workerVars, listingVars, scrapeVars, generateVars, kvKind, catIdx, blogUrls>>

\* main(), lines 105-110: the summary after the last category
MainDone ==
    /\ program = "legacy"
    /\ lpc = "category"
    /\ catIdx = Len(categories)
    /\ lpc' = "done"
    /\ UNCHANGED <<program, workerVars, listingVars, scrapeVars, generateVars, kvKind, lkv, catIdx, blogUrls,
                   urlIdx, returnedDoc, markedOk, lastScrape, lastStage, lfailed>>

NextLegacy == MainStart \/ MainCategory \/ MainProcessUrl \/ MainDone

----------------------------------------------------------------------------
\* Text.  A string is the sequence of its characters.

Newline == "\n"
Backslash == "\\"
Whitespace == {" ", Newline}

RECURSIVE Concat(_)
Concat(strs) == IF strs = <<>> THEN <<>> ELSE Head(strs) \o Concat(Tail(strs))

\* String.prototype.trim
RECURSIVE TrimStart(_)
TrimStart(str) ==
    IF str # <<>> /\ Head(str) \in Whitespace THEN TrimStart(Tail(str)) ELSE str
RECURSIVE TrimEnd(_)
TrimEnd(str) ==
    IF str # <<>> /\ str[Len(str)] \in Whitespace
    THEN TrimEnd(SubSeq(str, 1, Len(str) - 1))
    ELSE str
trim(str) == TrimEnd(TrimStart(str))

\* cheerio: .text() of a selection is the concatenated text of its elements
text(selection) == Concat(selection)

----------------------------------------------------------------------------
\* parseXMLSitemap (worker BlogScraper)

\* Bound: entries of a listing the filters and the parser are applied to
MaxEntries == 3

\* if (loc && lastmod)
keepsEntryLocOnly(loc, lastmod) == loc # <<>>
keepsEntry(loc, lastmod) == loc # <<>> /\ lastmod # <<>>

\* A <url> element is the texts of its <loc> and of its <lastmod> descendants
parseXMLSitemap(xmlContent) ==
    LET entry(element) == [url |-> trim(text(element.loc)),
                           lastmod |-> trim(text(element.lastmod))]
        entries == [i \in DOMAIN xmlContent |-> entry(xmlContent[i])]
    IN  SelectSeq(entries, LAMBDA e : keepsEntry(e.url, e.lastmod))

\* The <url> element number i of a drawn document: its <loc> and its <lastmod>
\* are absent, hold only whitespace, hold a text, or hold a text with
\* whitespace around it
Letters == <<"a", "b", "c", "d", "e", "f">>
ChildKinds == {"absent", "blank", "plain", "padded"}
ChildOf(kind, str) ==
    CASE kind = "absent" -> <<>>
      [] kind = "blank"  -> << <<" ", Newline>> >>
      [] kind = "plain"  -> <<str>>
      [] kind = "padded" -> << <<Newline, " ">> \o str \o <<" ">> >>
MkXml(f) == [i \in DOMAIN f |->
                [loc |-> ChildOf(f[i][1], <<"/", Letters[i]>>),
                 lastmod |-> ChildOf(f[i][2], <<"2", "0", "2", "5">>)]]
XmlDocuments ==
    {MkXml(f) : f \in UNION {[1 .. n -> ChildKinds \X ChildKinds] : n \in 0 .. MaxEntries}}

----------------------------------------------------------------------------
\* The two listing filters applied to drawn inputs

ShortSitemaps ==
    {MkSitemap(ds) : ds \in UNION {[1 .. n -> Lastmods \cup {0}] : n \in 0 .. MaxEntries}}

\* Listing pages: card i links to its own post or has no link; its <time> has
\* no datetime attribute, an unparsable one, or a day
MkPage(f) == [i \in DOMAIN f |->
                [href |-> IF f[i][1] THEN <<"/", "post", i>> ELSE NoHref,
                 datetime |-> f[i][2]]]
ListingPages ==
    {MkPage(f) : f \in UNION {[1 .. n -> BOOLEAN \X (Times \cup {NaN, NoAttr})] :
                                  n \in 0 .. MaxEntries}}

ListingAtRest ==
    /\ xml = <<>>
    /\ cards = <<>>
    /\ cutoff1 = 0
    /\ cutoff2 = 0
    /\ fn = "none"
    /\ res1 = <<>>
    /\ res2 = <<>>

\* getRecentPosts applied to the sitemap for both cutoffs
ApplyGetRecentPosts ==
    /\ program = "sitemapFilter"
    /\ fn = "none"
    /\ fn' = "getRecentPosts"
    /\ res1' = getRecentPosts(getAllBlogPostsFromSitemap(TRUE), cutoff1)
    /\ res2' = getRecentPosts(getAllBlogPostsFromSitemap(TRUE), cutoff2)
    /\ UNCHANGED <<program, workerVars, legacyVars, scrapeVars, generateVars, xml, cards, cutoff1, cutoff2>>

\* getRecentBlogUrls applied to the page at the two clock readings whose
\* cutoffs are cutoff1 and cutoff2
ApplyGetRecentBlogUrls ==
    /\ program = "htmlFilter"
    /\ fn = "none"
    /\ fn' = "getRecentBlogUrls"
    /\ \E now1, now2 \in Nows :
         /\ cutoffDate(now1, DefaultWeeksBack) = cutoff1
         /\ cutoffDate(now2, DefaultWeeksBack) = cutoff2
         /\ res1' = getRecentBlogUrls(cards, now1, DefaultWeeksBack, TRUE)
         /\ res2' = getRecentBlogUrls(cards, now2, DefaultWeeksBack, TRUE)
    /\ UNCHANGED <<program, workerVars, legacyVars, scrapeVars, generateVars, xml, cards, cutoff1, cutoff2>>

\* parseXMLSitemap applied to the sitemap document
ApplyParseXMLSitemap ==
    /\ program = "sitemapParse"
    /\ fn = "none"
    /\ fn' = "parseXMLSitemap"
    /\ res1' = parseXMLSitemap(xml)
    /\ res2' = res1'
    /\ UNCHANGED <<program, workerVars, legacyVars, scrapeVars, generateVars, xml, cards, cutoff1, cutoff2>>

NextListing == ApplyGetRecentPosts \/ ApplyGetRecentBlogUrls \/ ApplyParseXMLSitemap

----------------------------------------------------------------------------
\* Content extraction (extractSections of the legacy BlogScraper, parseContent
\* of the worker BlogScraper)
\*
\* An element of the content root is its tag name, the text that stands
\* directly in it, and, for a list, its <li> children; a <li> is the text
\* that stands directly in it followed by the <li> texts of a <ul> nested in
\* it (none when there is no nested list).

Intro == <<"i", "n", "t", "r", "o">>
SectionPrefix == <<"s", "e", "c", "t", "i", "o", "n", "_">>
Digits == <<"0", "1", "2", "3", "4", "5", "6", "7", "8", "9">>

\* parseInt of one digit, and the digit a template literal prints for it
parseInt(c) == (CHOOSE k \in DOMAIN Digits : Digits[k] = c) - 1
toString(n) == Digits[n + 1]

\* $(li).text(): the text of a <li> contains the text of the list nested in it
liText(li) == li.own \o Concat(li.sub)

\* $element.find("li"): every <li> below the element, nested ones included,
\* in document order
RECURSIVE findLi(_)
findLi(lis) ==
    IF lis = <<>> THEN <<>>
    ELSE <<liText(Head(lis))>> \o Head(lis).sub \o findLi(Tail(lis))

\* $element.text()
RECURSIVE lisText(_)
lisText(lis) == IF lis = <<>> THEN <<>> ELSE liText(Head(lis)) \o lisText(Tail(lis))
elementText(element) == element.own \o lisText(element.lis)

\* The <ul> elements nested in the <li> children of an element
RECURSIVE nestedLists(_)
nestedLists(lis) ==
    IF lis = <<>> THEN <<>>
    ELSE LET sub == Head(lis).sub
         IN  (IF sub = <<>> THEN <<>>
              ELSE << [tagName |-> <<"u", "l">>, own |-> <<>>,
                       lis |-> [k \in DOMAIN sub |-> [own |-> sub[k], sub |-> <<>>]]] >>)
             \o nestedLists(Tail(lis))

\* blogContent.find("p, h1, h2, h3, h4, h5, h6, ul, ol"): every matching
\* element below the content root, in document order
RECURSIVE find(_)
find(blogContent) ==
    IF blogContent = <<>> THEN <<>>
    ELSE <<Head(blogContent)>> \o nestedLists(Head(blogContent).lis)
         \o find(Tail(blogContent))

\* the trimmed non-empty texts of the <li> elements of a list
listItemsOf(element) ==
    SelectSeq([k \in DOMAIN findLi(element.lis) |-> trim(findLi(element.lis)[k])],
              LAMBDA itemText : itemText # <<>>)

Paragraph(str) == [type |-> "paragraph", text |-> str, items |-> <<>>]
List(listItems) == [type |-> "list", text |-> <<>>, items |-> listItems]

\* if (currentSection.content.length > 0) sections.push(currentSection)
pushSectionAlways(sections, currentSection) == Append(sections, currentSection)
pushSection(sections, currentSection) ==
    IF Len(currentSection.content) > 0 THEN Append(sections, currentSection) ELSE sections

\* extractSections: the section a heading element starts
startSectionUntrimmed(element, str) ==
    [type |-> SectionPrefix \o <<"h">> \o <<toString(parseInt(element.tagName[2]))>>,
     heading |-> elementText(element), content |-> <<>>]
startSection(element, str) ==
    [type |-> SectionPrefix \o <<"h">> \o <<toString(parseInt(element.tagName[2]))>>,
     heading |-> str, content |-> <<>>]

pushContent(currentSection, item) ==
    [currentSection EXCEPT !.content = Append(@, item)]

\* extractSections: the callback of .each, on the state <<sections, currentSection>>
extractElement(st, element) ==
    LET str == trim(elementText(element))
        tagName == element.tagName
    IN  IF str = <<>> THEN st
        ELSE IF tagName[1] = "h"
        THEN [sections |-> pushSection(st.sections, st.currentSection),
              currentSection |-> startSection(element, str)]
        ELSE IF tagName = <<"u", "l">> \/ tagName = <<"o", "l">>
        THEN LET listItems == listItemsOf(element)
             IN  IF Len(listItems) > 0
                 THEN [st EXCEPT !.currentSection = pushContent(@, List(listItems))]
                 ELSE st
        ELSE [st EXCEPT !.currentSection = pushContent(@, Paragraph(str))]

\* parseContent: the callback of .each
parseElement(st, element) ==
    LET str == trim(elementText(element))
        tagName == element.tagName
    IN  IF str = <<>> THEN st
        ELSE IF tagName[1] = "h"
        THEN [sections |-> pushSection(st.sections, st.currentSection),
              currentSection |-> [type |-> SectionPrefix \o tagName,
                                  heading |-> str, content |-> <<>>]]
        ELSE IF tagName = <<"u", "l">> \/ tagName = <<"o", "l">>
        THEN [st EXCEPT !.currentSection = pushContent(@, List(listItemsOf(element)))]
        ELSE [st EXCEPT !.currentSection = pushContent(@, Paragraph(str))]

IntroSection == [type |-> Intro, heading |-> <<>>, content |-> <<>>]

RECURSIVE eachExtract(_, _)
eachExtract(elements, st) ==
    IF elements = <<>> THEN st
    ELSE eachExtract(Tail(elements), extractElement(st, Head(elements)))
extractSections(blogContent) ==
    LET st == eachExtract(find(blogContent),
                          [sections |-> <<>>, currentSection |-> IntroSection])
    IN  pushSection(st.sections, st.currentSection)

RECURSIVE eachParse(_, _)
eachParse(elements, st) ==
    IF elements = <<>> THEN st
    ELSE eachParse(Tail(elements), parseElement(st, Head(elements)))
parseContent(blogContent) ==
    LET st == eachParse(find(blogContent),
                        [sections |-> <<>>, currentSection |-> IntroSection])
    IN  pushSection(st.sections, st.currentSection)

----------------------------------------------------------------------------
\* The AI input (prepareForAI of the legacy BlogScraper, prepareForOpenAI of
\* the worker BlogGenerator) and the word counts

TitleLabel == <<"T", "i", "t", "l", "e", ":", " ">>
DescriptionLabel == <<"D", "e", "s", "c", "r", "i", "p", "t", "i", "o", "n", ":", " ">>
CategoryLabel == <<"C", "a", "t", "e", "g", "o", "r", "y", ":", " ">>
IntroductionLine == <<"I", "n", "t", "r", "o", "d", "u", "c", "t", "i", "o", "n", ":">>
ListItemsLine == <<"L", "i", "s", "t", " ", "i", "t", "e", "m", "s", ":">>
Dash == <<"-", " ">>
\* the prefix of a list item; its bullet character (U+2022) is written "*"
Bullet == <<" ", " ", "*", " ">>
Uncategorized == <<"u", "n", "c", "a", "t", "e", "g", "o", "r", "i", "z", "e", "d">>

\* Array.prototype.join
RECURSIVE join(_, _)
join(strs, sep) ==
    IF strs = <<>> THEN <<>>
    ELSE IF Len(strs) = 1 THEN Head(strs)
    ELSE Head(strs) \o sep \o join(Tail(strs), sep)

\* Array.prototype.filter(Boolean) on strings: the empty string is falsy
filterBoolean(strs) == SelectSeq(strs, LAMBDA str : str # <<>>)

\* prepareForAI writes its separator as "\\n": a backslash and the letter n
LegacySeparator == <<Backslash, "n">>

\* prepareForAI: what the items of a section push
RECURSIVE introLines(_)
introLines(content) ==
    IF content = <<>> THEN <<>>
    ELSE (IF Head(content).type = "paragraph" /\ Head(content).text # <<>>
          THEN <<Dash \o Head(content).text>>
          ELSE <<>>)
         \o introLines(Tail(content))

bulletLines(items) == [k \in DOMAIN items |-> Bullet \o items[k]]

RECURSIVE contentLines(_)
contentLines(content) ==
    IF content = <<>> THEN <<>>
    ELSE (IF Head(content).type = "paragraph" /\ Head(content).text # <<>>
          THEN <<Dash \o Head(content).text>>
          ELSE IF Head(content).type = "list"
          THEN <<ListItemsLine>> \o bulletLines(Head(content).items)
          ELSE <<>>)
         \o contentLines(Tail(content))

RECURSIVE sectionLines(_)
sectionLines(sections) ==
    IF sections = <<>> THEN <<>>
    ELSE LET section == Head(sections)
         IN  (IF section.type = Intro
              THEN <<IntroductionLine>> \o introLines(section.content)
              ELSE (IF section.heading # <<>>
                    THEN <<LegacySeparator \o section.heading>>
                    ELSE <<>>)
                   \o contentLines(section.content))
             \o sectionLines(Tail(sections))

prepareForAI(scrapedData) ==
    LET promptSections ==
            filterBoolean(<<TitleLabel \o scrapedData.title,
                            IF scrapedData.description # <<>>
                            THEN DescriptionLabel \o scrapedData.description
                            ELSE <<>>,
                            CategoryLabel \o scrapedData.category,
                            <<>> >>)
            \o sectionLines(scrapedData.sections)
    IN  join(promptSections, LegacySeparator)

\* prepareForOpenAI: only the paragraphs of intro sections are pushed
RECURSIVE openAILines(_)
openAILines(sections) ==
    IF sections = <<>> THEN <<>>
    ELSE (IF Head(sections).type = Intro
          THEN <<IntroductionLine>> \o introLines(Head(sections).content)
          ELSE <<>>)
         \o openAILines(Tail(sections))

prepareForOpenAI(scrapedData) ==
    LET promptSections ==
            << TitleLabel \o scrapedData.title \o <<Newline>>
               \o DescriptionLabel \o scrapedData.description \o <<Newline>>
               \o CategoryLabel \o scrapedData.category \o <<Newline, Newline>> >>
            \o openAILines(scrapedData.sections)
    IN  join(promptSections, <<Newline>>)

\* str.split(" ").length
Occurrences(str, c) == Cardinality({i \in DOMAIN str : str[i] = c})
splitSpaceLength(str) == Occurrences(str, " ") + 1

\* str.split(/\\s+/).length as the legacy sources write the pattern: a
\* backslash followed by one or more letters s
splitLegacyLength(str) ==
    Cardinality({i \in DOMAIN str : str[i] = Backslash /\ i < Len(str) /\ str[i + 1] = "s"}) + 1

\* sections.flatMap(section => section.content.flatMap(...))
RECURSIVE contentTexts(_)
contentTexts(content) ==
    IF content = <<>> THEN <<>>
    ELSE (IF Head(content).type = "paragraph" THEN <<Head(content).text>>
          ELSE IF Head(content).type = "list" THEN Head(content).items
          ELSE <<>>)
         \o contentTexts(Tail(content))
RECURSIVE sectionTexts(_)
sectionTexts(sections) ==
    IF sections = <<>> THEN <<>>
    ELSE contentTexts(Head(sections).content) \o sectionTexts(Tail(sections))

calculateWordCount(sections) == splitSpaceLength(join(sectionTexts(sections), <<" ">>))

createPostData(blog) ==
    [word_count |-> splitSpaceLength(join(sectionTexts(blog.sections), <<" ">>)),
     sections_count |-> Len(blog.sections)]

----------------------------------------------------------------------------
\* Scraping one page (scrapePepperCloudBlog without a KV binding, then main's
\* prepareForAI; scrapeBlog, then processPost's createPostData and
\* generateBlogWithAI's prepareForOpenAI)
\*
\* A page is how its fetch ends and, of the html it delivers, the selections
\* of the title, of the excerpt and of the content root.

Null == <<>>

\* if (!title)
titleMissingNever(title) == FALSE
titleMissing(title) == title = <<>>

\* if (blogContent.length === 0), if (!blogContent.length)
contentMissing(blogContent) == Len(blogContent) = 0

LegacyCategory == <<"c", "r", "m">>

\* scrapePepperCloudBlog from the fetch on (no marker in the way): null or
\* the document
scrapedBlogOf(htmlPage, category) ==
    IF htmlPage.fetch # "ok" THEN Null
    ELSE LET title == trim(text(htmlPage.title))
             description == trim(text(htmlPage.description))
             blogContent == htmlPage.content
         IN  IF titleMissing(title) THEN Null
             ELSE IF contentMissing(blogContent) THEN Null
             ELSE LET sections == extractSections(blogContent[1])
                      aiReadyContent ==
                          prepareForAI([title |-> title, description |-> description,
                                        category |-> category, sections |-> sections])
                  IN  << [title |-> title,
                          description |-> description,
                          category |-> category,
                          sections |-> sections,
                          wordCount |-> splitLegacyLength(aiReadyContent),
                          sectionsCount |-> Len(sections)] >>

\* scrapeBlog: null or the document; the status of the response is not looked at
scrapeBlog(htmlPage) ==
    IF htmlPage.fetch = "throws" THEN Null
    ELSE LET title == trim(text(htmlPage.title))
             description == trim(text(htmlPage.description))
             blogContent == htmlPage.content
         IN  IF titleMissing(title) THEN Null
             ELSE IF contentMissing(blogContent) THEN Null
             ELSE << [title |-> title,
                      description |-> description,
                      category |-> Uncategorized,
                      sections |-> parseContent(blogContent[1])] >>

\* Bound: elements directly below the content root
MaxNodes == 4

P(str) == [tagName |-> <<"p">>, own |-> str, lis |-> <<>>]
H(level, str) == [tagName |-> <<"h", level>>, own |-> str, lis |-> <<>>]
Li(str) == [own |-> str, sub |-> <<>>]

Blank == <<" ", Newline>>

\* The elements a content root is drawn from: paragraphs and headings with a
\* blank, a plain or a padded text; lists whose <li> texts all survive, partly
\* survive or do not survive trimming; a list with text outside its <li>; a
\* list with a list nested in a <li>
ContentNodes ==
    { P(Blank), P(<<"a">>), P(<<" ", "b", " ", " ", "c", Newline>>),
      H("2", <<"x">>), H("3", <<Newline, "y", " ", "z", " ">>), H("2", Blank),
      [tagName |-> <<"u", "l">>, own |-> <<>>, lis |-> <<Li(<<"i">>), Li(<<" ", "j", " ">>)>>],
      [tagName |-> <<"o", "l">>, own |-> <<>>, lis |-> <<Li(Blank), Li(<<"k">>)>>],
      [tagName |-> <<"u", "l">>, own |-> <<>>, lis |-> <<Li(Blank)>>],
      [tagName |-> <<"u", "l">>, own |-> <<"n">>, lis |-> <<Li(Blank)>>],
      [tagName |-> <<"u", "l">>, own |-> <<>>,
       lis |-> << [own |-> <<"o">>, sub |-> << <<"q">> >>] >>] }

ContentRoots == UNION {[1 .. n -> ContentNodes] : n \in 0 .. MaxNodes}

TitleSelections == { <<>>, <<Blank>>, << <<Newline, "T", " ", "U", " ">> >> }
DescriptionSelections == { <<>>, << <<"D">> >> }

\* Pages that differ in title, excerpt and presence of the content root, with
\* a fetch that may fail; and pages with a title that differ in their content
Pages ==
    [fetch : {"ok"}, title : TitleSelections, description : DescriptionSelections,
     content : {<<>>, << <<>> >>, << <<P(<<"a">>)>> >>}]
    \cup
    [fetch : {"http404", "throws"}, title : TitleSelections,
     description : {<<>>}, content : {<<>>}]
    \cup
    [fetch : {"ok"}, title : { << <<"T">> >> }, description : { << <<"D">> >> },
     content : {<<root>> : root \in ContentRoots}]

ScrapeAtRest ==
    /\ webPage = [fetch |-> "ok", title |-> <<>>, description |-> <<>>, content |-> <<>>]
    /\ spc = "start"
    /\ scrapedBlog = Null
    /\ wordCount = 0
    /\ postData = Null
    /\ aiContent = <<>>

\* main: scraper.scrapePepperCloudBlog(url, category), env.KV absent
ScrapePepperCloudBlog ==
    /\ program = "legacyScrape"
    /\ spc = "start"
    /\ spc' = "scraped"
    /\ scrapedBlog' = scrapedBlogOf(webPage, LegacyCategory)
    /\ wordCount' = IF scrapedBlog' = Null THEN 0 ELSE scrapedBlog'[1].wordCount
    /\ UNCHANGED <<program, workerVars, legacyVars, listingVars, generateVars, webPage, postData, aiContent>>

\* main: const aiContent = scraper.prepareForAI(scrapedBlog)
MainPrepareForAI ==
    /\ program = "legacyScrape"
    /\ spc = "scraped"
    /\ scrapedBlog # Null
    /\ spc' = "prepared"
    /\ aiContent' = prepareForAI(scrapedBlog[1])
    /\ UNCHANGED <<program, workerVars, legacyVars, listingVars, generateVars, webPage, scrapedBlog,
                   wordCount, postData>>

\* processPost: this.scraper.scrapeBlog(post.url, post.lastmod)
ScrapeBlog ==
    /\ program = "workerScrape"
    /\ spc = "start"
    /\ spc' = "scraped"
    /\ scrapedBlog' = scrapeBlog(webPage)
    /\ wordCount' = IF scrapedBlog' = Null THEN 0
                    ELSE calculateWordCount(scrapedBlog'[1].sections)
    /\ UNCHANGED <<program, workerVars, legacyVars, listingVars, generateVars, webPage, postData, aiContent>>

\* processPost: createPostData(scrapedBlog, post.url), then generateBlogWithAI
\* up to its prepareForOpenAI(scrapedBlog)
ProcessScraped ==
    /\ program = "workerScrape"
    /\ spc = "scraped"
    /\ scrapedBlog # Null
    /\ spc' = "prepared"
    /\ postData' = <<createPostData(scrapedBlog[1])>>
    /\ aiContent' = prepareForOpenAI(scrapedBlog[1])
    /\ UNCHANGED <<program, workerVars, legacyVars, listingVars, generateVars, webPage, scrapedBlog, wordCount>>

NextScrape == ScrapePepperCloudBlog \/ MainPrepareForAI \/ ScrapeBlog \/ ProcessScraped

----------------------------------------------------------------------------
\* The AI category (worker BlogGenerator.categorizeWithAI, generateBlogWithAI)
\*
\* A reply of the OpenAI endpoint is how the call ends ("ok", "http" for a
\* response that is not ok, "throws") and, for an ok response, choices: <<>>
\* when choices[0] is undefined, else the one string choices[0].message.content.

ProductUpdates == <<"P", "r", "o", "d", "u", "c", "t", " ", "U", "p", "d", "a", "t", "e", "s">>
Grants == <<"G", "r", "a", "n", "t", "s">>
CRM == <<"C", "R", "M">>
SalesAndMarketing == <<"S", "a", "l", "e", "s", " ", "&", " ", "M", "a", "r", "k", "e", "t", "i", "n", "g">>
ProductSupport == <<"P", "r", "o", "d", "u", "c", "t", " ", "S", "u", "p", "p", "o", "r", "t">>

\* private categories
categoryNames == <<ProductUpdates, Grants, CRM, SalesAndMarketing, ProductSupport>>

SlugProductUpdate == <<"p", "r", "o", "d", "u", "c", "t", "-", "u", "p", "d", "a", "t", "e">>
SlugGrant == <<"g", "r", "a", "n", "t">>
SlugCrm == <<"c", "r", "m">>
SlugSalesAndMarketing == <<"s", "a", "l", "e", "s", "-", "a", "n", "d", "-", "m", "a", "r", "k", "e", "t", "i", "n", "g">>
SlugProductSupport == <<"p", "r", "o", "d", "u", "c", "t", "-", "s", "u", "p", "p", "o", "r", "t">>

\* private categoryMap
categoryMap ==
    [name \in Range(categoryNames) |->
        CASE name = ProductUpdates -> SlugProductUpdate
          [] name = Grants -> SlugGrant
          [] name = CRM -> SlugCrm
          [] name = SalesAndMarketing -> SlugSalesAndMarketing
          [] name = ProductSupport -> SlugProductSupport]

\* data.choices[0]?.message?.content?.trim() || 'Product Updates'
contentOrDefault(choices) ==
    IF choices = <<>> THEN ProductUpdates
    ELSE IF trim(choices[1]) = <<>> THEN ProductUpdates
    ELSE trim(choices[1])

\* this.categories.includes(aiCategory) ? aiCategory : 'Product Updates'
validCategoryOrGrants(categoryName) ==
    IF categoryName \in Range(categoryNames) THEN categoryName ELSE Grants
validCategory(categoryName) ==
    IF categoryName \in Range(categoryNames) THEN categoryName ELSE ProductUpdates

\* BlogGenerator.categorizeWithAI: every failure ends in the default name
categorizeWithAI(reply) ==
    IF reply.status # "ok" THEN ProductUpdates
    ELSE validCategory(contentOrDefault(reply.choices))

\* this.categoryMap[aiCategory] || 'product-update'
categoryPathOf(categoryName) ==
    IF categoryName \in DOMAIN categoryMap THEN categoryMap[categoryName] ELSE SlugProductUpdate

\* BlogGenerator.generateBlogWithAI from the categorized name on: null, or the
\* generated content with the slug of the category
generateBlogWithAI(aiCategoryName, reply) ==
    LET categoryPath == categoryPathOf(aiCategoryName)
    IN  IF reply.status # "ok" THEN Null
        ELSE IF reply.choices = <<>> THEN Null
        ELSE IF reply.choices[1] = <<>> THEN Null
        ELSE << [content |-> reply.choices[1], category |-> categoryPath] >>

\* What the categorizer call can reply: each listed name, a listed name with
\* whitespace around it, a listed name in lower case, a slug, an unlisted
\* name, a blank and an empty content, no choice at all, and the failures
CategoryContents ==
    Range(categoryNames) \cup
    { <<" ">> \o CRM \o <<Newline>>, <<"g", "r", "a", "n", "t", "s">>, SlugGrant, <<"N", "e", "w", "s">>, <<" ", Newline>>, <<>> }
FailedReplies == { [status |-> "http", choices |-> <<>>], [status |-> "throws", choices |-> <<>>] }
CategoryReplies ==
    { [status |-> "ok", choices |-> <<str>>] : str \in CategoryContents }
    \cup { [status |-> "ok", choices |-> <<>>] } \cup FailedReplies
GenerationReplies ==
    { [status |-> "ok", choices |-> << <<"-", "-", "-">> >>],
      [status |-> "ok", choices |-> << <<>> >>],
      [status |-> "ok", choices |-> <<>>] } \cup FailedReplies

GenerateAtRest ==
    /\ categoryReply = [status |-> "ok", choices |-> <<>>]
    /\ generationReply = [status |-> "ok", choices |-> <<>>]
    /\ gpc = "start"
    /\ aiCategory = <<>>
    /\ generatedResult = Null

\* generateBlogWithAI, line 33: const aiCategory = await this.categorizeWithAI(...)
CategorizeWithAI ==
    /\ program = "generate"
    /\ gpc = "start"
    /\ gpc' = "categorized"
    /\ aiCategory' = categorizeWithAI(categoryReply)
    /\ UNCHANGED <<program, workerVars, legacyVars, listingVars, scrapeVars,
                   categoryReply, generationReply, generatedResult>>

\* generateBlogWithAI, lines 34-135: the slug, the generation call, the result
GenerateBlogWithAI ==
    /\ program = "generate"
    /\ gpc = "categorized"
    /\ gpc' = "returned"
    /\ generatedResult' = generateBlogWithAI(aiCategory, generationReply)
    /\ UNCHANGED <<program, workerVars, legacyVars, listingVars, scrapeVars,
                   categoryReply, generationReply, aiCategory>>

NextGenerate == CategorizeWithAI \/ GenerateBlogWithAI

----------------------------------------------------------------------------
\* Specifications

InitWorker ==
    /\ program = "worker"
    /\ sitemap \in Sitemaps
    /\ WorkerAtRest
    /\ LegacyAtRest
    /\ ListingAtRest
    /\ ScrapeAtRest
    /\ GenerateAtRest

InitLegacy ==
    /\ program = "legacy"
    /\ sitemap = <<>>
    /\ WorkerAtRest
    /\ kvKind \in {"none", "mock", "cloudflare"}
    /\ lkv = {}
    /\ lpc = "start"
    /\ catIdx = 0
    /\ blogUrls = <<>>
    /\ urlIdx = 0
    /\ returnedDoc = {}
    /\ markedOk = {}
    /\ lastScrape = NoScrape
    /\ lastStage = "none"
    /\ lfailed = FALSE
    /\ ListingAtRest
    /\ ScrapeAtRest
    /\ GenerateAtRest

InitListing ==
    /\ \/ /\ program = "sitemapFilter"
          /\ sitemap \in ShortSitemaps /\ cards = <<>> /\ xml = <<>>
          /\ cutoff1 \in Times /\ cutoff2 \in Times
       \/ /\ program = "htmlFilter"
          /\ sitemap = <<>> /\ cards \in ListingPages /\ xml = <<>>
          /\ cutoff1 \in Times /\ cutoff2 \in Times
       \/ /\ program = "sitemapParse"
          /\ sitemap = <<>> /\ cards = <<>> /\ xml \in XmlDocuments
          /\ cutoff1 = 0 /\ cutoff2 = 0
    /\ WorkerAtRest
    /\ LegacyAtRest
    /\ ScrapeAtRest
    /\ GenerateAtRest
    /\ cutoff1 <= cutoff2
    /\ fn = "none"
    /\ res1 = <<>>
    /\ res2 = <<>>

\* the scheduled worker
SpecWorker == InitWorker /\ [][NextWorker]_vars

\* The worker in an environment that may lack the API key and whose KV store
\* may fail
InitWorkerEnv ==
    /\ program = "worker"
    /\ sitemap \in EnvSitemaps
    /\ kvWatermark = {}
    /\ pc = "idle"
    /\ ranOnce = FALSE
    /\ lastProcessedDate = 0
    /\ recentPosts = <<>>
    /\ latestDate = 0
    /\ processedCount = 0
    /\ attempted = <<>>
    /\ attemptedBefore = {}
    /\ lastPost = NoPost
    /\ failedEarlier = FALSE
    /\ runThrew = FALSE
    /\ updateArg = {}
    /\ apiKey \in BOOLEAN
    /\ faulty \in BOOLEAN
    /\ runOutcome = "none"
    /\ kvReads = 0
    /\ kvWrites = 0
    /\ LegacyAtRest
    /\ ListingAtRest
    /\ ScrapeAtRest
    /\ GenerateAtRest

SpecWorkerEnv == InitWorkerEnv /\ [][NextWorker]_vars

\* One invocation of run(), against a KV store that holds no watermark or
\* the watermark of any earlier run
InitWorkerOnce ==
    /\ program = "worker"
    /\ sitemap \in Sitemaps
    /\ kvWatermark \in {{}} \cup {{t} : t \in Times}
    /\ pc = "idle"
    /\ ranOnce = FALSE
    /\ lastProcessedDate = 0
    /\ recentPosts = <<>>
    /\ latestDate = 0
    /\ processedCount = 0
    /\ attempted = <<>>
    /\ attemptedBefore = {}
    /\ lastPost = NoPost
    /\ failedEarlier = FALSE
    /\ runThrew = FALSE
    /\ updateArg = {}
    /\ apiKey = TRUE
    /\ faulty = FALSE
    /\ runOutcome = "none"
    /\ kvReads = 0
    /\ kvWrites = 0
    /\ LegacyAtRest
    /\ ListingAtRest
    /\ ScrapeAtRest
    /\ GenerateAtRest

RunOnce == ~ranOnce /\ RunStart

NextWorkerOnce == RunOnce \/ ProcessNext \/ RunFinish

SpecWorkerOnce == InitWorkerOnce /\ [][NextWorkerOnce]_vars

\* One invocation of run() over a listing whose posts are undated or dated at
\* the latest day, in which every call run() makes returns: a step of run()
\* that can be taken is taken
CapSitemaps == {sm \in Sitemaps : \A i \in DOMAIN sm : sm[i].lastmod \in {MaxDate, NaN}}

InitWorkerCap == InitWorkerOnce /\ sitemap \in CapSitemaps

SpecWorkerCap ==
    /\ InitWorkerCap
    /\ [][NextWorkerOnce]_vars
    /\ WF_vars(ProcessNext)
    /\ WF_vars(RunFinish)

\* the legacy command-line workflow
SpecLegacy == InitLegacy /\ [][NextLegacy]_vars

\* the listing filters
SpecListing == InitListing /\ [][NextListing]_vars

InitScrape ==
    /\ program \in {"legacyScrape", "workerScrape"}
    /\ sitemap = <<>>
    /\ WorkerAtRest
    /\ LegacyAtRest
    /\ ListingAtRest
    /\ webPage \in Pages
    /\ spc = "start"
    /\ scrapedBlog = Null
    /\ wordCount = 0
    /\ postData = Null
    /\ aiContent = <<>>
    /\ GenerateAtRest

\* scraping one page, in either variant
SpecScrape == InitScrape /\ [][NextScrape]_vars

InitGenerate ==
    /\ program = "generate"
    /\ sitemap = <<>>
    /\ WorkerAtRest
    /\ LegacyAtRest
    /\ ListingAtRest
    /\ ScrapeAtRest
    /\ categoryReply \in CategoryReplies
    /\ generationReply \in GenerationReplies
    /\ gpc = "start"
    /\ aiCategory = <<>>
    /\ generatedResult = Null

\* the AI category and generation of one document
SpecGenerate == InitGenerate /\ [][NextGenerate]_vars

\* either program
Init == InitWorker \/ InitLegacy
Next == NextWorker \/ NextLegacy
Spec == Init /\ [][Next]_vars


----------------------------------------------------------------------------
\* Claims about the worker's watermark

WatermarkOf(kv) == CHOOSE t \in kv : TRUE

\* The posts of the last run that were discovered but not passed to processPost
NotAttempted == {recentPosts[i] : i \in (processedCount + 1) .. Len(recentPosts)}

\* C1: the watermark never regresses.  updateLastProcessedDate is invoked only
\* with a date strictly greater than the value getLastProcessedDate returned at
\* the start of that run, and from one state to the next the persisted
\* watermark never disappears and never decreases.
C1_WatermarkNeverRegresses ==
    /\ [](\A d \in updateArg : d # NaN /\ d > lastProcessedDate)
    /\ [][kvWatermark # {} =>
            /\ kvWatermark' # {}
            /\ WatermarkOf(kvWatermark') >= WatermarkOf(kvWatermark)]_vars

\* A second run has advanced a watermark that an earlier run had persisted
C1_Witness ==
    /\ program = "worker"
    /\ attemptedBefore # {}
    /\ updateArg # {}
    /\ pc = "idle"
    /\ WatermarkOf(kvWatermark) > lastProcessedDate

\* C2: when run() advances the watermark, the new value is the maximum lastmod
\* among the posts passed to processPost in that run.
C2_AdvancesToMaxAttempted ==
    \A d \in updateArg :
        /\ \E i \in DOMAIN attempted : attempted[i].lastmod = d
        /\ \A i \in DOMAIN attempted : attempted[i].lastmod <= d

\* The batch cap cut the loop short and a post beyond the cap is newer than
\* the value the watermark advanced to
C2_Witness ==
    /\ program = "worker"
    /\ pc = "idle"
    /\ updateArg # {}
    /\ Len(recentPosts) > MaxPostsPerRun
    /\ processedCount = MaxPostsPerRun
    /\ \E p \in NotAttempted : \A d \in updateArg : p.lastmod > d

\* C3 (as claimed): after a run that the batch cap cut short, every post that
\* was discovered but not attempted is discovered again by getRecentPosts on
\* the next run over the unchanged sitemap.
C3_SkippedPostsRediscovered ==
    (program = "worker" /\ pc = "idle" /\ ranOnce /\ ~runThrew) =>
        \A p \in NotAttempted :
            \E j \in DOMAIN getRecentPosts(sitemap, getLastProcessedDate(0)) :
                getRecentPosts(sitemap, getLastProcessedDate(0))[j] = p

----------------------------------------------------------------------------
\* Claims about failure isolation and the dedup markers

\* C5: partial-failure isolation.  A failure of the scrape, generation or
\* publish step of one document never keeps the remaining documents of the
\* batch from being attempted: run() never ends in its catch block and, when
\* its loop is over, has attempted the first min(5, n) posts; main() requests
\* every category and, when a category's loop is over, has attempted every
\* url of that category.
C5_FailureIsolation ==
    /\ program = "worker" =>
          /\ ~runThrew
          /\ Len(attempted) = processedCount
          /\ pc # "loop" => processedCount = Min(MaxPostsPerRun, Len(recentPosts))
    /\ program = "legacy" =>
          /\ lpc \in {"category", "done"} => urlIdx = Len(blogUrls)
          /\ lpc = "done" => catIdx = Len(categories)

\* A post was dispatched successfully after an earlier post of the same run failed
C5_Witness ==
    /\ program = "worker"
    /\ failedEarlier
    /\ processedCount >= 2
    /\ lastPost.ok
    /\ lastPost.url = attempted[processedCount].url

\* C6 (as claimed): once scrapePepperCloudBlog has returned a document for a
\* url, every later call for that url against the same KV store returns null
\* before any fetch is made.
C6_ReturnedUrlNeverScrapedAgain ==
    (program = "legacy" /\ kvKind # "none" /\ lastScrape.hadDoc) =>
        ~lastScrape.fetched /\ ~lastScrape.doc

\* C6 (amended): once scrapePepperCloudBlog has returned a document for a url
\* and the write of its marker has succeeded, every later call for that url
\* whose read of the marker succeeds returns null before any fetch is made.
C6_MarkedUrlNeverScrapedAgain ==
    (program = "legacy" /\ lastScrape.wasMarked /\ lastScrape.getOk) =>
        ~lastScrape.fetched /\ ~lastScrape.doc

\* A url whose marker had been written was asked for again and skipped
C6_Witness ==
    /\ program = "legacy"
    /\ lastScrape.hadDoc
    /\ lastScrape.wasMarked
    /\ lastScrape.getOk
    /\ ~lastScrape.fetched

----------------------------------------------------------------------------
\* Claims about the listing filters

\* The indices of the entries of all whose lastmod is strictly after cutoff
NewerThan(all, cutoff) ==
    {i \in DOMAIN all : all[i].lastmod # NaN /\ all[i].lastmod > cutoff}

\* The j-th smallest element of the set S of indices
NthOf(S, j) == CHOOSE i \in S : Cardinality({k \in S : k <= i}) = j

\* res lists, in the order of all, exactly the entries of all newer than cutoff
IsFilterOf(res, all, cutoff) ==
    /\ Len(res) = Cardinality(NewerThan(all, cutoff))
    /\ \A j \in 1 .. Len(res) : res[j] = all[NthOf(NewerThan(all, cutoff), j)]

\* C7: getRecentPosts(cutoff) returns, in sitemap order, exactly the parsed
\* entries whose lastmod is strictly greater than cutoff; every entry is
\* scanned and an entry whose lastmod equals the cutoff is excluded.
C7_SitemapFilterExact ==
    fn = "getRecentPosts" =>
        /\ IsFilterOf(res1, sitemap, cutoff1)
        /\ IsFilterOf(res2, sitemap, cutoff2)

\* An entry dated at the cutoff is dropped and an entry after it is kept
C7_Witness ==
    /\ fn = "getRecentPosts"
    /\ \E i, j \in DOMAIN sitemap :
         /\ i < j
         /\ sitemap[i].lastmod = cutoff1
         /\ sitemap[j].lastmod # NaN
         /\ sitemap[j].lastmod > cutoff1
         /\ sitemap[j] \in Range(res1)
         /\ sitemap[i] \notin Range(res1)

\* C8: raising the cutoff never increases the number of entries returned, for
\* the sitemap filter and for the traversal of the HTML listing.
C8_FilterMonotonic ==
    fn # "none" => Len(res2) <= Len(res1)

\* The HTML traversal returned strictly fewer urls for the later cutoff
C8_Witness ==
    /\ fn = "getRecentBlogUrls"
    /\ cutoff1 < cutoff2
    /\ Len(res2) < Len(res1)
    /\ Len(res2) > 0

HasDate(article) == article.datetime # NoAttr /\ article.datetime # NaN
HasLink(article) == article.href # NoHref

\* a card before or at position j has a datetime strictly before the cutoff
OlderUpTo(j, cutoff) ==
    \E i \in 1 .. j : HasDate(cards[i]) /\ cards[i].datetime < cutoff

\* C9 (as claimed): getRecentBlogUrls stops at the first card whose datetime
\* is <= the cutoff: that card's url and the url of every later card are
\* absent from the result, so every returned url that has a datetime has a
\* datetime strictly greater than the cutoff.
C9_StopsAtFirstNotNewer ==
    fn = "getRecentBlogUrls" =>
        \A i \in DOMAIN cards :
            (HasDate(cards[i]) /\ cards[i].datetime <= cutoff1) =>
                \A j \in i .. Len(cards) :
                    HasLink(cards[j]) => cards[j].href \notin Range(res1)

\* C9 (amended): getRecentBlogUrls stops at the first card whose datetime is
\* strictly before the cutoff: that card's url and the url of every later card
\* are absent from the result, every returned url that has a parsable datetime
\* has a datetime >= the cutoff, and a linked card dated exactly at the cutoff
\* with no older card before it is returned.
C9_StopsAtFirstOlder ==
    fn = "getRecentBlogUrls" =>
        \A j \in DOMAIN cards :
            /\ OlderUpTo(j, cutoff1) => cards[j].href \notin Range(res1)
            /\ (HasLink(cards[j]) /\ HasDate(cards[j]) /\ cards[j].href \in Range(res1))
                   => cards[j].datetime >= cutoff1
            /\ (HasLink(cards[j]) /\ cards[j].datetime = cutoff1 /\ ~OlderUpTo(j, cutoff1))
                   => cards[j].href \in Range(res1)

\* A card dated exactly at the cutoff is returned and a linked older card
\* after it is not
C9_Witness ==
    /\ fn = "getRecentBlogUrls"
    /\ \E i, j \in DOMAIN cards :
         /\ i < j
         /\ HasLink(cards[i]) /\ cards[i].datetime = cutoff1
         /\ cards[i].href \in Range(res1)
         /\ HasLink(cards[j]) /\ HasDate(cards[j]) /\ cards[j].datetime < cutoff1
         /\ cards[j].href \notin Range(res1)

\* C10 (as claimed): a card that has a link but no datetime attribute is
\* always in the result, whatever the cutoff and whatever cards precede it; a
\* card without a link is never included.
C10_UndatedAlwaysIncluded ==
    fn = "getRecentBlogUrls" =>
        /\ \A j \in DOMAIN cards :
              (HasLink(cards[j]) /\ cards[j].datetime = NoAttr)
                  => cards[j].href \in Range(res1)
        /\ NoHref \notin Range(res1)

\* C10 (amended): a card that has a link but no datetime attribute is in the
\* result exactly when no card before it has a datetime strictly before the
\* cutoff (the traversal has not stopped); a card without a link is never
\* included.
C10_UndatedIncludedUnlessStopped ==
    fn = "getRecentBlogUrls" =>
        /\ \A j \in DOMAIN cards :
              (HasLink(cards[j]) /\ cards[j].datetime = NoAttr)
                  => (cards[j].href \in Range(res1) <=> ~OlderUpTo(j, cutoff1))
        /\ NoHref \notin Range(res1)
        /\ Len(res1) <= Cardinality({j \in DOMAIN cards : HasLink(cards[j])})

\* An undated linked card before the card that stops the traversal is
\* returned, an undated linked card after it is not, and the page has a card
\* without a link
C10_Witness ==
    /\ fn = "getRecentBlogUrls"
    /\ \E i, j, k \in DOMAIN cards :
         /\ i < j /\ j < k
         /\ HasLink(cards[i]) /\ cards[i].datetime = NoAttr
         /\ cards[i].href \in Range(res1)
         /\ HasDate(cards[j]) /\ cards[j].datetime < cutoff1
         /\ HasLink(cards[k]) /\ cards[k].datetime = NoAttr
         /\ cards[k].href \notin Range(res1)
    /\ \E n \in DOMAIN cards : ~HasLink(cards[n])

----------------------------------------------------------------------------
\* Claims about the sitemap parser

\* Some character of the texts of the selection is not whitespace
HasText(selection) ==
    \E k \in DOMAIN selection : \E c \in Range(selection[k]) : c \notin Whitespace

\* t is str without the whitespace at its two ends
IsTrimOf(t, str) ==
    \E i, j \in DOMAIN str :
        /\ t = SubSeq(str, i, j)
        /\ str[i] \notin Whitespace
        /\ str[j] \notin Whitespace
        /\ \A k \in DOMAIN str : (k < i \/ k > j) => str[k] \in Whitespace

\* The <url> elements that have both a <loc> and a <lastmod> with some text
CompleteUrls == {i \in DOMAIN xml : HasText(xml[i].loc) /\ HasText(xml[i].lastmod)}

\* C11: parseXMLSitemap yields exactly one entry for each <url> element that
\* has both a non-empty <loc> and a non-empty <lastmod> (whitespace aside), in
\* document order, the entry holding the two texts, and yields nothing for a
\* <url> element that lacks either.
C11_OneEntryPerCompleteUrl ==
    (program = "sitemapParse" /\ fn = "parseXMLSitemap") =>
        /\ Len(res1) = Cardinality(CompleteUrls)
        /\ \A i \in CompleteUrls :
              LET e == res1[Cardinality({j \in CompleteUrls : j <= i})]
              IN  /\ IsTrimOf(e.url, Concat(xml[i].loc))
                  /\ IsTrimOf(e.lastmod, Concat(xml[i].lastmod))

\* A document was parsed in which a <url> without <lastmod> and a <url> with
\* a blank <loc> stand between two complete <url> elements
C11_Witness ==
    /\ program = "sitemapParse"
    /\ fn = "parseXMLSitemap"
    /\ Len(xml) >= 3
    /\ Len(res1) = 2
    /\ 1 \in CompleteUrls
    /\ Len(xml) \in CompleteUrls
    /\ \E i \in DOMAIN xml : xml[i].lastmod = <<>> /\ HasText(xml[i].loc)

----------------------------------------------------------------------------
\* Claims about the content extraction

\* The elements directly below the content root of the page
RootElements == IF webPage.content = <<>> THEN <<>> ELSE webPage.content[1]

\* The page has been scraped and the scraper returned a document
Scraped == program \in {"legacyScrape", "workerScrape"} /\ scrapedBlog # Null
SectionsOut == scrapedBlog[1].sections

IsHeadingTag(element) == element.tagName[1] = "h"
IsListTag(element) == element.tagName \in {<<"u", "l">>, <<"o", "l">>}
IsParagraphTag(element) == element.tagName = <<"p">>

\* Positions of the heading elements that have a text
Headings == {i \in DOMAIN RootElements :
                IsHeadingTag(RootElements[i]) /\ HasText(<<RootElements[i].own>>)}

\* The heading at position i is directly followed by neither another heading
\* nor the end of the content
HasBody(i) == i < Len(RootElements) /\ (i + 1) \notin Headings

NonIntro == {k \in DOMAIN SectionsOut : SectionsOut[k].type # Intro}

\* C12: only non-empty sections are appended.  Every section of a returned
\* document has at least one content item, and a heading that is directly
\* followed by another heading or by the end of the content yields no
\* section: there are no more heading sections than headings with something
\* after them.  This holds for extractSections and for parseContent.
C12_OnlyNonEmptySections ==
    Scraped =>
        /\ \A k \in DOMAIN SectionsOut : Len(SectionsOut[k].content) >= 1
        /\ Cardinality(NonIntro) <= Cardinality({i \in Headings : HasBody(i)})

\* A document with a section was returned for a page whose content has a
\* heading directly followed by a heading and ends with a heading
C12_Witness ==
    /\ Scraped
    /\ program = "workerScrape"
    /\ Len(SectionsOut) >= 1
    /\ Len(RootElements) \in Headings
    /\ \E i \in Headings : (i + 1) \in Headings

\* The content is headings that have a text, each directly followed by a
\* paragraph that has a text, and such paragraphs
Interleaved ==
    /\ \A i \in DOMAIN RootElements :
          /\ IsHeadingTag(RootElements[i]) \/ IsParagraphTag(RootElements[i])
          /\ HasText(<<RootElements[i].own>>)
    /\ \A i \in Headings :
          i < Len(RootElements) /\ IsParagraphTag(RootElements[i + 1])

\* The position of the heading that is number k among the headings
NthHeading(k) ==
    CHOOSE i \in Headings : Cardinality({j \in Headings : j <= i}) = k

\* C13: sectioning.  For content made of N headings interleaved with
\* non-empty paragraphs the returned document has exactly N non-intro
\* sections, in document order, the k-th of type "section_h<level>" of the
\* k-th heading and with its trimmed text as heading; it has an intro section
\* exactly when a paragraph precedes the first heading, and the intro comes
\* first.  This holds for extractSections and for parseContent.
C13_OneSectionPerHeading ==
    (Scraped /\ Interleaved) =>
        LET hasIntro == RootElements # <<>> /\ 1 \notin Headings
            shift == IF hasIntro THEN 1 ELSE 0
        IN  /\ Len(SectionsOut) = Cardinality(Headings) + shift
            /\ hasIntro => SectionsOut[1].type = Intro
            /\ \A k \in 1 .. Cardinality(Headings) :
                  LET section == SectionsOut[k + shift]
                      element == RootElements[NthHeading(k)]
                  IN  /\ section.type =
                           <<"s", "e", "c", "t", "i", "o", "n", "_", "h", element.tagName[2]>>
                      /\ IsTrimOf(section.heading, element.own)

\* A document was returned for content that is a heading of level 3 with
\* whitespace around its text, a paragraph, a heading of level 2 and a
\* paragraph
C13_Witness ==
    /\ Scraped
    /\ program = "legacyScrape"
    /\ Interleaved
    /\ Cardinality(Headings) = 2
    /\ Len(SectionsOut) = 2
    /\ \E i \in Headings : RootElements[i].tagName[2] = "3"
    /\ \E i \in Headings : RootElements[i].tagName[2] = "3"
    /\ \E i \in Headings : RootElements[i].tagName[2] = "2"

\* str holds a character and has no whitespace at its two ends
IsTrimmedText(str) ==
    /\ str # <<>>
    /\ str[1] \notin Whitespace
    /\ str[Len(str)] \notin Whitespace

\* C14: content-item invariant.  In a returned document every paragraph item
\* has a non-empty trimmed text and every list item has at least one entry,
\* all entries non-empty and trimmed; a list element none of whose <li> texts
\* survives trimming contributes no item.  Claimed for extractSections and
\* for parseContent; parseContent appends the list without looking at the
\* number of its entries.
C14_ContentItemsNonEmpty ==
    Scraped =>
        \A k \in DOMAIN SectionsOut :
            \A n \in DOMAIN SectionsOut[k].content :
                LET item == SectionsOut[k].content[n]
                IN  /\ item.type = "paragraph" => IsTrimmedText(item.text)
                    /\ item.type = "list" =>
                          /\ Len(item.items) >= 1
                          /\ \A m \in DOMAIN item.items : IsTrimmedText(item.items[m])

\* The number of list items in the sections
RECURSIVE ListItemCount(_)
ListItemCount(sections) ==
    IF sections = <<>> THEN 0
    ELSE Cardinality({n \in DOMAIN Head(sections).content :
                          Head(sections).content[n].type = "list"})
         + ListItemCount(Tail(sections))

\* C15: a list nested in a list is visited only as part of the outer list's
\* item text: it produces no content item of its own, so a returned document
\* has no more list items than its content has lists that are not nested in
\* a list.  The walk selects every <ul>/<ol> below the content root, the
\* nested ones too, and find("li") returns the nested <li> as well.
C15_NestedListNotSeparate ==
    Scraped =>
        ListItemCount(SectionsOut) <=
            Cardinality({i \in DOMAIN RootElements : IsListTag(RootElements[i])})

\* C16: given a successful fetch, scrapePepperCloudBlog and scrapeBlog return
\* null exactly when the title is absent or empty after trimming or the
\* content root is absent, and a returned document has a non-empty title.
C16_NullIffNoTitleOrNoContent ==
    (program \in {"legacyScrape", "workerScrape"} /\ spc # "start" /\ webPage.fetch = "ok") =>
        /\ scrapedBlog = Null <=> (~HasText(webPage.title) \/ webPage.content = <<>>)
        /\ scrapedBlog # Null => IsTrimmedText(scrapedBlog[1].title)

\* A page with a title but without content root was fetched and the scraper
\* returned null
C16_Witness ==
    /\ program = "workerScrape"
    /\ spc = "scraped"
    /\ webPage.fetch = "ok"
    /\ HasText(webPage.title)
    /\ webPage.content = <<>>
    /\ scrapedBlog = Null

----------------------------------------------------------------------------
\* Claims about the AI input and the word count

\* The lines of a string: its pieces between newline characters
RECURSIVE LinesFrom(_, _)
LinesFrom(str, line) ==
    IF str = <<>> THEN <<line>>
    ELSE IF Head(str) = Newline THEN <<line>> \o LinesFrom(Tail(str), <<>>)
    ELSE LinesFrom(Tail(str), Append(line, Head(str)))
Lines(str) == LinesFrom(str, <<>>)

\* block stands in lines, as consecutive lines
ContainsBlock(lines, block) ==
    \E at \in 0 .. (Len(lines) - Len(block)) :
        \A k \in DOMAIN block : lines[at + k] = block[k]

\* The lines the layout gives the content items of a section
RECURSIVE ItemLines(_)
ItemLines(content) ==
    IF content = <<>> THEN <<>>
    ELSE (IF Head(content).type = "paragraph"
          THEN << <<"-", " ">> \o Head(content).text >>
          ELSE << <<"L", "i", "s", "t", " ", "i", "t", "e", "m", "s", ":">> >>
               \o [k \in DOMAIN Head(content).items |->
                      <<" ", " ", "*", " ">> \o Head(content).items[k]])
         \o ItemLines(Tail(content))

\* The AI input of the returned document has been made
Prepared == Scraped /\ spc = "prepared"
Document == scrapedBlog[1]

\* C17: the AI input starts with the line "Title: <title>", then a line
\* "Description: <description>" if and only if the description is non-empty,
\* then the line "Category: <category>", then one blank line, after which the
\* first section starts; for prepareForAI and for prepareForOpenAI, also when
\* the document has no sections.
C17_HeaderLayout ==
    Prepared =>
        LET lines == Lines(aiContent)
            n == IF Document.description # <<>> THEN 3 ELSE 2
        IN  /\ Len(lines) >= n + 1
            /\ lines[1] = <<"T", "i", "t", "l", "e", ":", " ">> \o Document.title
            /\ Document.description # <<>> =>
                  lines[2] = <<"D", "e", "s", "c", "r", "i", "p", "t", "i", "o", "n", ":", " ">>
                             \o Document.description
            /\ lines[n] = <<"C", "a", "t", "e", "g", "o", "r", "y", ":", " ">>
                          \o Document.category
            /\ lines[n + 1] = <<>>
            /\ Document.sections # <<>> => (Len(lines) >= n + 2 /\ lines[n + 2] # <<>>)

\* C18: for every heading section of the document the AI input holds, as
\* consecutive lines, a blank line, the heading text, and the lines of its
\* content items ("- <text>" for a paragraph; "List items:" and one bullet
\* line per entry for a list); for prepareForAI and for prepareForOpenAI.
C18_HeadingSectionsEmitted ==
    Prepared =>
        \A k \in DOMAIN Document.sections :
            LET section == Document.sections[k]
            IN  section.type # Intro =>
                    ContainsBlock(Lines(aiContent),
                                  << <<>>, section.heading >> \o ItemLines(section.content))

\* C19: prepareForOpenAI includes the list items of the intro section: for
\* every list item of an intro section the AI input holds the line
\* "List items:" followed by one bullet line per entry.
C19_IntroListsIncluded ==
    (Prepared /\ program = "workerScrape") =>
        \A k \in DOMAIN Document.sections :
            LET section == Document.sections[k]
            IN  section.type = Intro =>
                    \A n \in DOMAIN section.content :
                        section.content[n].type = "list" =>
                            ContainsBlock(Lines(aiContent), ItemLines(<<section.content[n]>>))

\* The number of whitespace-delimited tokens of a string
TokenCount(str) ==
    Cardinality({i \in DOMAIN str :
                    /\ str[i] \notin Whitespace
                    /\ (i = 1 \/ str[i - 1] \in Whitespace)})

\* C20: the word count reported for a scraped document is the number of
\* whitespace-delimited tokens of its AI input: the wordCount of
\* scrapePepperCloudBlog, and calculateWordCount and the word_count of
\* createPostData in the worker.
C20_WordCountIsTokenCount ==
    Prepared =>
        /\ wordCount = TokenCount(aiContent)
        /\ program = "workerScrape" => postData[1].word_count = TokenCount(aiContent)

----------------------------------------------------------------------------
\* Claims about the AI category

\* generateBlogWithAI has returned a result that is not null
Generated == program = "generate" /\ gpc = "returned" /\ generatedResult # Null

FiveSlugs ==
    { <<"p", "r", "o", "d", "u", "c", "t", "-", "u", "p", "d", "a", "t", "e">>,
      <<"g", "r", "a", "n", "t">>,
      <<"c", "r", "m">>,
      <<"s", "a", "l", "e", "s", "-", "a", "n", "d", "-", "m", "a", "r", "k", "e", "t", "i", "n", "g">>,
      <<"p", "r", "o", "d", "u", "c", "t", "-", "s", "u", "p", "p", "o", "r", "t">> }

\* The categorizer replied with a content that is one of the five listed names
RepliedListedName ==
    /\ categoryReply.status = "ok"
    /\ categoryReply.choices # <<>>
    /\ categoryReply.choices[1] \in Range(categoryNames)

\* The categorizer replied with a content that is one of the five listed
\* names, possibly with whitespace around it
RepliedListedNameTrimmed ==
    /\ categoryReply.status = "ok"
    /\ categoryReply.choices # <<>>
    /\ \E k \in DOMAIN categoryNames : IsTrimOf(categoryNames[k], categoryReply.choices[1])

\* C21 (as claimed): the category of a non-null generateBlogWithAI result is
\* one of the five slugs, and it is product-update whenever the name the
\* categorizer returned is not exactly one of the five listed names.
C21_DefaultUnlessExactName ==
    Generated =>
        /\ generatedResult[1].category \in FiveSlugs
        /\ ~RepliedListedName =>
              generatedResult[1].category =
                  <<"p", "r", "o", "d", "u", "c", "t", "-", "u", "p", "d", "a", "t", "e">>

\* C21 (amended): the category of a non-null generateBlogWithAI result is one
\* of the five slugs, and it is product-update whenever the name the
\* categorizer returned, with the whitespace at its ends removed, is not one
\* of the five listed names (also when the call fails or returns no content).
C21_DefaultUnlessTrimmedName ==
    Generated =>
        /\ generatedResult[1].category \in FiveSlugs
        /\ ~RepliedListedNameTrimmed =>
              generatedResult[1].category =
                  <<"p", "r", "o", "d", "u", "c", "t", "-", "u", "p", "d", "a", "t", "e">>

\* A result was returned although the categorizer had replied with a name
\* that is not listed
C21_Witness ==
    /\ Generated
    /\ categoryReply.status = "ok"
    /\ categoryReply.choices # <<>>
    /\ HasText(categoryReply.choices)
    /\ ~RepliedListedNameTrimmed

-----------------------------------------------------------------------------
\* A worker run was started in an environment without OPENAI_API_KEY
KeylessRun == program = "worker" /\ ~apiKey /\ ranOnce

\* main() stopped at the API key check
KeylessMain == program = "legacy" /\ lpc = "fatal"

\* C22 (as claimed): a missing OpenAI API key stops the legacy main() and the
\* worker run() at startup: no post or url is scraped and neither the
\* watermark nor a dedup marker is written.
C22_MissingKeyIsFatalAtStartup ==
    /\ KeylessRun =>
          /\ attempted = <<>>
          /\ kvWrites = 0
          /\ kvWatermark = {}
    /\ KeylessMain =>
          /\ lastScrape = NoScrape
          /\ lastStage = "none"

-----------------------------------------------------------------------------
\* The order of the stages of processPost
StageOrder == <<"scrape", "generate", "dispatch">>

\* How often processPost ran the stage for its last post
StageCount(stage) == Cardinality({i \in DOMAIN lastPost.steps : lastPost.steps[i] = stage})

\* main() reached generateBlog for its last url; it reached saveBlogToFile
GenerateReached == lastStage \in {"saved", "generateThrew", "saveThrew"}
SaveReached == lastStage \in {"saved", "saveThrew"}

\* C23: per document the stages run in the order scrape, AI generation,
\* publish; the publish sink (githubDispatch in the worker, saveBlogToFile in
\* main()) is invoked only when the scrape returned a document and the
\* generation returned content; a failed generation gives no output for the
\* document, is attempted once, and neither ends the run nor is fatal.
C23_ScrapeGeneratePublish ==
    /\ (program = "worker" /\ lastPost # NoPost) =>
          /\ lastPost.steps = SubSeq(StageOrder, 1, Len(lastPost.steps))
          /\ StageCount("scrape") = 1
          /\ StageCount("generate") = (IF lastPost.scraped THEN 1 ELSE 0)
          /\ StageCount("dispatch") = (IF lastPost.scraped /\ lastPost.generated THEN 1 ELSE 0)
          /\ ~lastPost.generated => ~lastPost.ok /\ ~lastPost.threw /\ ~runThrew
    /\ (program = "legacy" /\ lastStage # "none") =>
          /\ GenerateReached <=> lastScrape.doc
          /\ lastStage = "skipped" <=> ~lastScrape.doc
          /\ SaveReached => lastScrape.doc /\ lastStage # "generateThrew"
          /\ lpc # "fatal"

\* The generation for a scraped post failed, nothing was dispatched, and the
\* run goes on with the next post
C23_Witness ==
    /\ program = "worker"
    /\ lastPost.scraped
    /\ ~lastPost.generated
    /\ lastPost.steps = <<"scrape", "generate">>
    /\ pc = "loop"
    /\ processedCount < Len(recentPosts)

-----------------------------------------------------------------------------
\* The run is over (it returned its result lines)
RunReturned == program = "worker" /\ ranOnce /\ pc = "idle"

\* The loop of run() has made its last call of processPost
LoopOver ==
    /\ attempted # <<>>
    /\ Len(attempted) = Min(MaxPostsPerRun, Len(recentPosts))

\* C24: in one run of the worker the watermark is read exactly once, before
\* the listing is fetched (the listing is filtered by the value read); it is
\* written at most once, only after the last processPost call of the run has
\* returned; and it is not written at all when no post of the listing is
\* newer than the watermark that was read.
C24_WatermarkReadOnceWrittenLast ==
    /\ [](  (program = "worker" /\ ranOnce) =>
              /\ kvReads = 1
              /\ recentPosts \in {getRecentPosts(sitemap, lastProcessedDate), <<>>}
              /\ kvWrites <= 1
              /\ kvWrites = 1 => pc = "idle" /\ LoopOver /\ updateArg # {}
              /\ NewerThan(sitemap, lastProcessedDate) = {} =>
                    kvWrites = 0 /\ updateArg = {}  )
    /\ [][ (program = "worker" /\ kvWatermark' # kvWatermark) =>
              /\ pc = "update"
              /\ pc' = "idle"
              /\ LoopOver
              /\ kvWrites' = 1 ]_vars

\* A run over several newer posts has written the watermark, once, at its end
C24_Witness ==
    /\ RunReturned
    /\ Len(attempted) >= 2
    /\ kvReads = 1
    /\ kvWrites = 1
    /\ kvWatermark = updateArg
    /\ kvWatermark # {lastProcessedDate}

-----------------------------------------------------------------------------
\* C25: batch cap.  In one run processPost is called at most 5 times, on the
\* first min(5, n) of the n newer posts in listing order, and the run returns
\* after that many attempts whenever every call it makes returns.
C25_BatchCap ==
    /\ [](  program = "worker" =>
              /\ Len(attempted) <= MaxPostsPerRun
              /\ Len(attempted) <= Len(recentPosts)
              /\ attempted = SubSeq(recentPosts, 1, Len(attempted))
              /\ RunReturned => Len(attempted) = Min(MaxPostsPerRun, Len(recentPosts))  )
    /\ (program = "worker" /\ pc # "idle") ~> RunReturned

\* A run over more than five newer posts has returned after five attempts
C25_Witness ==
    /\ RunReturned
    /\ Len(recentPosts) > MaxPostsPerRun
    /\ Len(attempted) = MaxPostsPerRun
    /\ attempted[MaxPostsPerRun] = recentPosts[MaxPostsPerRun]

-----------------------------------------------------------------------------
-----------------------------------------------------------------------------
\* main() has called scrapePepperCloudBlog; the marker of the url it was
\* called for is in the store
ScrapeCalled == program = "legacy" /\ lastScrape.url # <<>>
MarkerStored == kvKey(fullUrlOf(lastScrape.url)) \in lkv

\* C27 (as claimed): scrapePepperCloudBlog writes a dedup marker if and only
\* if it returns a document, and every path on which it returns null leaves
\* the KV store unchanged.
C27_MarkerIffDocument ==
    ScrapeCalled =>
        /\ lastScrape.marked <=> lastScrape.doc
        /\ ~lastScrape.doc => lastScrape.kvSame

\* C27 (amended): scrapePepperCloudBlog writes a dedup marker only if it
\* returns a document, and does write it when it returns a document, a KV
\* namespace is configured and kv.put succeeds; every path on which it returns
\* null makes no kv.put call and leaves the KV store unchanged.
C27_MarkerOnlyWithDocument ==
    ScrapeCalled =>
        /\ lastScrape.marked => lastScrape.doc /\ MarkerStored
        /\ (lastScrape.doc /\ lastScrape.put = "ok") => lastScrape.marked
        /\ lastScrape.put # "ok" => ~lastScrape.marked /\ lastScrape.kvSame
        /\ ~lastScrape.doc => lastScrape.put = "none" /\ lastScrape.kvSame

\* A page was fetched and gave no document while markers of earlier urls
\* were in the store, and the store was left as it was
C27_Witness ==
    /\ ScrapeCalled
    /\ lastScrape.fetched
    /\ ~lastScrape.doc
    /\ lastScrape.kvSame
    /\ lkv # {}
    /\ ~MarkerStored

-----------------------------------------------------------------------------
\* C28: in main() the marker of a url is in the store before generateBlog is
\* called for it, also when generateBlog or saveBlogToFile then throws; so
\* generateBlog is called a second time for a url only if the store did not
\* work: the write of the url's marker had failed or the read of it fails.
C28_GenerateOncePerUrl ==
    (program = "legacy" /\ GenerateReached) =>
        /\ lastScrape.put = "ok" => lastScrape.marked /\ MarkerStored
        /\ lastScrape.hadDoc => ~lastScrape.wasMarked \/ ~lastScrape.getOk

\* generateBlog threw for a url whose marker is already in the store
C28_Witness ==
    /\ program = "legacy"
    /\ lastStage = "generateThrew"
    /\ lastScrape.put = "ok"
    /\ MarkerStored
    /\ ~lastScrape.hadDoc

-----------------------------------------------------------------------------
\* The marker of the url of the last call was written by a call for that url
OwnMarker == lastScrape.wasMarked \/ lastScrape.marked

\* C29 (as claimed): isUrlScraped(u) is true only after markUrlAsScraped(u)
\* has succeeded for the identical url u: a url that scrapePepperCloudBlog
\* skips as already scraped had its own marker written, and marking one url
\* never makes another url count as scraped.
C29_ScrapedOnlyIfSameUrlMarked ==
    /\ (ScrapeCalled /\ ~lastScrape.fetched) => lastScrape.wasMarked
    /\ (ScrapeCalled /\ MarkerStored) => OwnMarker

====
